---- MODULE Spec2Model ----
(***************************************************************************)
(* Model of sqlboiler's orchestrator (sqlboiler.go: New, Run, Cleanup and  *)
(* the init* stages) and of the drivers package's filter resolver          *)
(* (TablesFromList, ColumnsFromList) and DefaultInt.                       *)
(*                                                                         *)
(* A string is a sequence of one-character strings, so that strings.Split  *)
(* is computed and not assumed.  A Go slice is a record [isnil, elems] so  *)
(* that a nil result is distinguishable from an empty non-nil one.  An     *)
(* error is the sequence of its message parts, outermost wrap first; the   *)
(* nil error is the empty sequence.                                        *)
(***************************************************************************)
EXTENDS Integers, Sequences, FiniteSets, TLC

VARIABLES
    list,          \* filter resolver: the specifier list passed in
    tablename,     \* filter resolver: the table name passed to ColumnsFromList
    tables,        \* NotCalled, or Returned(TablesFromList(list))
    columns,       \* NotCalled, or Returned(ColumnsFromList(list, tablename))
    value,         \* DefaultInt: the configured value passed in
    def,           \* DefaultInt: the default passed in
    bound,         \* NotCalled, or Returned(DefaultInt(value, def))
    config,        \* the *Config handed to New
    pc,            \* position of New: the stage it is about to run, or "returned"
    s,             \* the State New builds (s := &State{Config: config})
    ret,           \* what New returned: [state, err]
    calls,         \* stages New has executed, in order, each with its outcome
    fetched,       \* outcome of bdb.Tables inside initTables: "none" | "error" | "ok"
    fetchNames,    \* bdb.Tables: NotCalled, or Returned(the driver's table names)
    fetchSlots,    \* bdb.Tables: per table name NotCalled or Returned(its answer)
    fetchOrder,    \* bdb.Tables: the table indices in the order their fetches
                   \* completed, while bdb.Tables is running
    outOfOrder,    \* some fetch completed before the fetch of an earlier table
    conn,          \* the driver connection: "none" | "open" | "closed"
    opens,         \* number of Driver.Open calls
    closes,        \* number of Driver.Close calls
    cleanups,      \* number of Cleanup calls made by the caller
    panicked,      \* a method was called through the nil *State
    runs,          \* number of Run calls made by the caller
    rpc,           \* position of Run: "idle" or the render step it is about to do
    includeTests,  \* argument of the current (or last) Run
    idx,           \* index of the table the range loop of Run is at
    renders,       \* render steps of the current (or last) Run, in order
    runErr,        \* error returned by the last Run
    prev           \* NotCalled, or Returned(the last Run that returned nil
                   \* before the current or last one)

filterVars == <<list, tablename, tables, columns>>
intVars    == <<value, def, bound>>
fetchVars  == <<fetchNames, fetchSlots, fetchOrder, outOfOrder>>
newVars    == <<config, pc, s, ret, calls, fetched, fetchNames,
                fetchSlots, fetchOrder, outOfOrder>>
connVars   == <<conn, opens, closes, cleanups, panicked>>
runVars    == <<runs, rpc, includeTests, idx, renders, runErr, prev>>
vars       == <<list, tablename, tables, columns, value, def, bound, config,
                pc, s, ret, calls, fetched, fetchNames, fetchSlots, fetchOrder, outOfOrder,
                conn, opens,
                closes, cleanups, panicked, runs, rpc, includeTests, idx, renders,
                runErr, prev>>

----------------------------------------------------------------------------
(* Bounds *)

MaxSpecLen == 3
MaxList == 2
MaxChars == 8
MaxTables == 3
MaxRuns == 2
MaxCleanups == 2
MaxInt == 5

----------------------------------------------------------------------------
(* Go values *)

NilSlice == [isnil |-> TRUE, elems |-> <<>>]

GoAppend(slice, x) == [isnil |-> FALSE, elems |-> Append(slice.elems, x)]

NoErr == <<>>

ErrorsNew(msg) == <<msg>>

Wrap(err, msg) == <<msg>> \o err

\* a call's result: NotCalled before the call, Returned(v) after it
NotCalled == <<>>

Returned(v) == <<v>>

----------------------------------------------------------------------------
(* Filter resolver: drivers.TablesFromList, drivers.ColumnsFromList *)

Chars == {"a", ".", "*"}

\* the strings of at most MaxSpecLen characters
Specifiers == UNION {[1..n -> Chars] : n \in 0..MaxSpecLen}

\* the characters of a list written out, one terminator per specifier
RECURSIVE ListSize(_)
ListSize(l) ==
    IF l = <<>> THEN 0 ELSE Len(Head(l)) + 1 + ListSize(Tail(l))

\* l is a list of at most MaxList specifiers and at most MaxChars characters
IsSpecList(l) ==
    /\ \E n \in 0..MaxList : l \in [1..n -> Specifiers]
    /\ ListSize(l) <= MaxChars

TableArgs == {<<"a">>, <<"A">>, <<"*">>}

\* index of the first "." of str at or after position i, 0 when there is none
RECURSIVE IndexDot(_, _)
IndexDot(str, i) ==
    IF i > Len(str) THEN 0
    ELSE IF str[i] = "." THEN i
    ELSE IndexDot(str, i + 1)

\* strings.Split(str, "."): always at least one segment, "" gives [""]
RECURSIVE Split(_)
Split(str) ==
    LET d == IndexDot(str, 1) IN
    IF d = 0 THEN <<str>>
    ELSE <<SubSeq(str, 1, d - 1)>> \o Split(SubSeq(str, d + 1, Len(str)))

IsTableSpec_AnyLen(splits) == Len(splits) >= 1

IsTableSpec(splits) == Len(splits) = 1

RECURSIVE TablesLoop(_, _, _)
TablesLoop(l, i, acc) ==
    IF i > Len(l) THEN acc
    ELSE LET splits == Split(l[i]) IN
         TablesLoop(l, i + 1,
                    IF IsTableSpec(splits) THEN GoAppend(acc, splits[1]) ELSE acc)

TablesFromList_ShortCut(l) ==
    IF Len(l) <= 1 THEN NilSlice ELSE TablesLoop(l, 1, NilSlice)

TablesFromList(l) ==
    IF Len(l) = 0 THEN NilSlice ELSE TablesLoop(l, 1, NilSlice)

SkipColumnSpec_AtLeastTwo(splits) == Len(splits) < 2

SkipColumnSpec(splits) == Len(splits) # 2

TableMatches_NoWildcard(splits, t) == splits[1] = t

TableMatches(splits, t) == splits[1] = t \/ splits[1] = <<"*">>

RECURSIVE ColumnsLoop(_, _, _, _)
ColumnsLoop(l, t, i, acc) ==
    IF i > Len(l) THEN acc
    ELSE LET splits == Split(l[i]) IN
         ColumnsLoop(l, t, i + 1,
                     IF SkipColumnSpec(splits) THEN acc
                     ELSE IF TableMatches(splits, t) THEN GoAppend(acc, splits[2])
                     ELSE acc)

ColumnsFromList(l, t) ==
    IF Len(l) = 0 THEN NilSlice ELSE ColumnsLoop(l, t, 1, NilSlice)

----------------------------------------------------------------------------
(* Orchestrator: values *)

DriverNames == {"postgres", "mock", "mysql", ""}

NilDriver == "nil driver"

NilState == "nil"

TableNames == {"a", "b"}

\* a bdb.Table as far as the orchestrator reads it; PKey = FALSE is PKey == nil
Table == [Name : TableNames, PKey : BOOLEAN, IsJoinTable : BOOLEAN]

DriverErr == <<"driver error">>

\* what Driver.TableNames can enumerate, in the driver's order
NameLists == UNION {[1..n -> TableNames] : n \in 0..MaxTables}

\* what the fetches of one table can answer: its metadata, or a failure
TableAnswers ==
    [PKey : BOOLEAN, IsJoinTable : BOOLEAN, err : {NoErr}]
        \cup {[PKey |-> FALSE, IsJoinTable |-> FALSE, err |-> DriverErr]}

\* bdb.Tables has failed: the name enumeration or the fetch of some table
FetchFailed ==
    /\ fetchNames # NotCalled
    /\ \/ fetchNames[1].err # NoErr
       \/ \E i \in 1..Len(fetchSlots) :
            fetchSlots[i] # NotCalled /\ fetchSlots[i][1].err # NoErr

\* bdb.Tables is ready to return: it failed, or every table is fetched
FetchDone ==
    /\ fetchNames # NotCalled
    /\ \/ FetchFailed
       \/ \A i \in 1..Len(fetchSlots) : fetchSlots[i] # NotCalled

TablesAnswer_CompletionOrder(order) ==
    IF FetchFailed THEN [tables |-> <<>>, err |-> DriverErr]
    ELSE [tables |-> [k \in 1..Len(fetchSlots) |->
                         [Name |-> fetchNames[1].names[order[k]],
                          PKey |-> fetchSlots[order[k]][1].PKey,
                          IsJoinTable |-> fetchSlots[order[k]][1].IsJoinTable]],
          err |-> NoErr]

\* what bdb.Tables(s.Driver, exclude...) returns: no partial schema on a
\* failure, otherwise one table per name in the driver's order, whatever
\* order the fetches completed in (order)
TablesAnswer(order) ==
    IF FetchFailed THEN [tables |-> <<>>, err |-> DriverErr]
    ELSE [tables |-> [i \in 1..Len(fetchSlots) |->
                         [Name |-> fetchNames[1].names[i],
                          PKey |-> fetchSlots[i][1].PKey,
                          IsJoinTable |-> fetchSlots[i][1].IsJoinTable]],
          err |-> NoErr]

TemplateGroups ==
    <<"Templates", "SingletonTemplates", "TestTemplates",
      "SingletonTestTemplates", "TestMainTemplate">>

StageOrder ==
    <<"initDriver", "Open", "initTables", "initOutFolder", "initTemplates">>

----------------------------------------------------------------------------
(* Orchestrator: the stages of New *)

initDriver_Default(st, driverName) ==
    LET d == CASE driverName = "postgres" -> "postgres"
               [] driverName = "mock" -> "mock"
               [] OTHER -> "mock"
        st1 == [st EXCEPT !.Driver = d]
    IN  IF st1.Driver = NilDriver
        THEN [s |-> st1, err |-> ErrorsNew("An invalid driver name was provided")]
        ELSE [s |-> st1, err |-> NoErr]

\* initDriver: the switch leaves s.Driver alone for an unknown name
initDriver(st, driverName) ==
    LET d == CASE driverName = "postgres" -> "postgres"
               [] driverName = "mock" -> "mock"
               [] OTHER -> st.Driver
        st1 == [st EXCEPT !.Driver = d]
    IN  IF st1.Driver = NilDriver
        THEN [s |-> st1, err |-> ErrorsNew("An invalid driver name was provided")]
        ELSE [s |-> st1, err |-> NoErr]

\* the names appended to missingPkey by the range loop of checkPKeys
RECURSIVE MissingPKeyLoop(_, _, _)
MissingPKeyLoop(tbls, i, missingPkey) ==
    IF i > Len(tbls) THEN missingPkey
    ELSE MissingPKeyLoop(tbls, i + 1,
                         IF ~tbls[i].PKey THEN Append(missingPkey, tbls[i].Name)
                         ELSE missingPkey)

\* strings.Join(names, sep), one part per name and per separator
RECURSIVE Join(_, _)
Join(names, sep) ==
    IF Len(names) = 0 THEN <<>>
    ELSE IF Len(names) = 1 THEN <<names[1]>>
    ELSE <<names[1], sep>> \o Join(Tail(names), sep)

checkPKeys_FirstOnly(tbls) ==
    LET missingPkey == MissingPKeyLoop(tbls, 1, <<>>) IN
    IF Len(missingPkey) # 0
    THEN <<"primary key missing in tables (">>
             \o Join(<<missingPkey[1]>>, ", ") \o <<")">>
    ELSE NoErr

checkPKeys(tbls) ==
    LET missingPkey == MissingPKeyLoop(tbls, 1, <<>>) IN
    IF Len(missingPkey) # 0
    THEN <<"primary key missing in tables (">>
             \o Join(missingPkey, ", ") \o <<")">>
    ELSE NoErr

initTables_NoEmptyCheck(st, ans) ==
    LET st1 == [st EXCEPT !.Tables = ans.tables] IN
    IF ans.err # NoErr
    THEN [s |-> st1, err |-> Wrap(ans.err, "unable to fetch table data")]
    ELSE [s |-> st1, err |-> checkPKeys(st1.Tables)]

\* initTables; ans is the answer of bdb.Tables(s.Driver, exclude...)
initTables(st, ans) ==
    LET st1 == [st EXCEPT !.Tables = ans.tables] IN
    IF ans.err # NoErr
    THEN [s |-> st1, err |-> Wrap(ans.err, "unable to fetch table data")]
    ELSE IF Len(st1.Tables) = 0
    THEN [s |-> st1, err |-> ErrorsNew("no tables found in database")]
    ELSE [s |-> st1, err |-> checkPKeys(st1.Tables)]

OsErr == <<"os error">>

\* initOutFolder; ok is whether os.MkdirAll succeeds
initOutFolder(st, ok) ==
    [s |-> st, err |-> IF ok THEN NoErr ELSE OsErr]

TemplateErr == <<"template error">>

\* initTemplates; failAt = 0: getBasePath fails, k in 1..5: the k-th load
\* fails, 6: nothing fails.  The groups loaded before the failure stay set.
initTemplates(st, failAt) ==
    LET loaded == {TemplateGroups[k] : k \in 1..Len(TemplateGroups)
                                       \cap 1..(failAt - 1)} IN
    [s |-> [st EXCEPT !.Templates = loaded],
     err |-> IF failAt > Len(TemplateGroups) THEN NoErr
             ELSE IF failAt = 0 THEN OsErr
             ELSE TemplateErr]

Call(stage, err) == [stage |-> stage, ok |-> err = NoErr]

NewInitDriver ==
    /\ pc = "initDriver"
    /\ LET r == initDriver(s, config.DriverName) IN
         /\ s' = r.s
         /\ calls' = Append(calls, Call("initDriver", r.err))
         /\ IF r.err # NoErr
            THEN /\ ret' = [state |-> NilState, err |-> r.err]
                 /\ pc' = "returned"
            ELSE /\ pc' = "Open"
                 /\ UNCHANGED ret
    /\ UNCHANGED <<config, fetched, fetchVars>>
    /\ UNCHANGED <<filterVars, intVars, connVars, runVars>>

NewOpen_NoAbort ==
    /\ pc = "Open"
    /\ \E ok \in BOOLEAN :
         LET err == IF ok THEN NoErr ELSE DriverErr IN
         /\ opens' = opens + 1
         /\ conn' = IF ok THEN "open" ELSE conn
         /\ calls' = Append(calls, Call("Open", err))
         /\ pc' = "initTables"
         /\ UNCHANGED ret
    /\ UNCHANGED <<config, s, fetched, fetchVars, closes, cleanups, panicked>>
    /\ UNCHANGED <<filterVars, intVars, runVars>>

NewOpen ==
    /\ pc = "Open"
    /\ \E ok \in BOOLEAN :
         LET err == IF ok THEN NoErr ELSE DriverErr IN
         /\ opens' = opens + 1
         /\ conn' = IF ok THEN "open" ELSE conn
         /\ calls' = Append(calls, Call("Open", err))
         /\ IF err # NoErr
            THEN /\ ret' = [state |-> NilState,
                            err |-> Wrap(err, "unable to connect to the database")]
                 /\ pc' = "returned"
            ELSE /\ pc' = "initTables"
                 /\ UNCHANGED ret
    /\ UNCHANGED <<config, s, fetched, fetchVars, closes, cleanups, panicked>>
    /\ UNCHANGED <<filterVars, intVars, runVars>>

\* bdb.Tables asks the driver for the table names
FetchTableNames ==
    /\ pc = "initTables"
    /\ fetchNames = NotCalled
    /\ \/ /\ fetchNames' = Returned([names |-> <<>>, err |-> DriverErr])
          /\ UNCHANGED <<fetchSlots, fetchOrder, outOfOrder>>
       \/ \E nl \in NameLists :
            /\ fetchNames' = Returned([names |-> nl, err |-> NoErr])
            /\ fetchSlots' = [i \in 1..Len(nl) |-> NotCalled]
            /\ UNCHANGED <<fetchOrder, outOfOrder>>
    /\ UNCHANGED <<config, pc, s, ret, calls, fetched>>
    /\ UNCHANGED <<filterVars, intVars, connVars, runVars>>

\* a worker completes the fetch of one table that is still pending; after a
\* failure no further fetch is made
FetchTable ==
    /\ pc = "initTables"
    /\ fetchNames # NotCalled
    /\ ~FetchFailed
    /\ \E i \in 1..Len(fetchSlots) : \E a \in TableAnswers :
         /\ fetchSlots[i] = NotCalled
         /\ fetchSlots' = [fetchSlots EXCEPT ![i] = Returned(a)]
         /\ fetchOrder' = Append(fetchOrder, i)
         /\ outOfOrder' = (outOfOrder \/ \E k \in 1..Len(fetchOrder) : fetchOrder[k] > i)
    /\ UNCHANGED <<config, pc, s, ret, calls, fetched, fetchNames>>
    /\ UNCHANGED <<filterVars, intVars, connVars, runVars>>

NewInitTables ==
    /\ pc = "initTables"
    /\ FetchDone
    /\ LET ans == TablesAnswer(fetchOrder) IN
         LET r == initTables(s, ans) IN
         /\ s' = r.s
         /\ fetched' = IF ans.err # NoErr THEN "error" ELSE "ok"
         /\ calls' = Append(calls, Call("initTables", r.err))
         /\ IF r.err # NoErr
            THEN /\ ret' = [state |-> NilState,
                            err |-> Wrap(r.err, "unable to initialize tables")]
                 /\ pc' = "returned"
            ELSE /\ pc' = "initOutFolder"
                 /\ UNCHANGED ret
    /\ fetchOrder' = <<>>
    /\ UNCHANGED <<config, fetchNames, fetchSlots, outOfOrder>>
    /\ UNCHANGED <<filterVars, intVars, connVars, runVars>>

NewInitOutFolder_TablesPrefix ==
    /\ pc = "initOutFolder"
    /\ \E ok \in BOOLEAN :
         LET r == initOutFolder(s, ok) IN
         /\ s' = r.s
         /\ calls' = Append(calls, Call("initOutFolder", r.err))
         /\ IF r.err # NoErr
            THEN /\ ret' = [state |-> NilState,
                            err |-> Wrap(r.err, "unable to initialize tables")]
                 /\ pc' = "returned"
            ELSE /\ pc' = "initTemplates"
                 /\ UNCHANGED ret
    /\ UNCHANGED <<config, fetched, fetchVars>>
    /\ UNCHANGED <<filterVars, intVars, connVars, runVars>>

NewInitOutFolder ==
    /\ pc = "initOutFolder"
    /\ \E ok \in BOOLEAN :
         LET r == initOutFolder(s, ok) IN
         /\ s' = r.s
         /\ calls' = Append(calls, Call("initOutFolder", r.err))
         /\ IF r.err # NoErr
            THEN /\ ret' = [state |-> NilState,
                            err |-> Wrap(r.err, "unable to initialize the output folder")]
                 /\ pc' = "returned"
            ELSE /\ pc' = "initTemplates"
                 /\ UNCHANGED ret
    /\ UNCHANGED <<config, fetched, fetchVars>>
    /\ UNCHANGED <<filterVars, intVars, connVars, runVars>>

NewInitTemplates ==
    /\ pc = "initTemplates"
    /\ \E failAt \in 0..(Len(TemplateGroups) + 1) :
         LET r == initTemplates(s, failAt) IN
         /\ s' = r.s
         /\ calls' = Append(calls, Call("initTemplates", r.err))
         /\ IF r.err # NoErr
            THEN ret' = [state |-> NilState,
                         err |-> Wrap(r.err, "unable to initialize templates")]
            ELSE ret' = [state |-> "s", err |-> NoErr]
         /\ pc' = "returned"
    /\ UNCHANGED <<config, fetched, fetchVars>>
    /\ UNCHANGED <<filterVars, intVars, connVars, runVars>>

----------------------------------------------------------------------------
(* Orchestrator: Run *)

\* one render step: generateSingletonOutput, generateTestMainOutput,
\* generateSingletonTestOutput (table 0), generateOutput, generateTestOutput;
\* data is the Tables field of the templateData it is handed
Render(kind, i, ok) ==
    [kind |-> kind, table |-> i, ok |-> ok, data |-> s.Tables]

RenderErr == <<"render error">>

NextTable_NoSkip(tbls, i) == i

\* the range loop's position: the first table at or after i that is not a
\* join table, Len(tbls) + 1 when the range is exhausted
RECURSIVE NextTable(_, _)
NextTable(tbls, i) ==
    IF i > Len(tbls) THEN i
    ELSE IF tbls[i].IsJoinTable THEN NextTable(tbls, i + 1)
    ELSE i

\* Run returns err
RunReturn(err) ==
    /\ rpc' = "idle"
    /\ idx' = 0
    /\ runErr' = err

\* the for loop of Run resumes at table i
RangeFrom(i) ==
    LET j == NextTable(s.Tables, i) IN
    IF j > Len(s.Tables)
    THEN RunReturn(NoErr)
    ELSE /\ rpc' = "output"
         /\ idx' = j
         /\ UNCHANGED runErr

EntityTable(tbl) == ~tbl.IsJoinTable

Run_FiltersTables ==
    /\ pc = "returned"
    /\ rpc = "idle"
    /\ ~panicked
    /\ runs < MaxRuns
    /\ \E it \in BOOLEAN :
         IF ret.state = NilState
         THEN /\ panicked' = TRUE
              /\ UNCHANGED <<rpc, includeTests, idx, renders, runErr, prev, s>>
         ELSE /\ prev' = IF runs > 0 /\ runErr = NoErr
                          THEN Returned([includeTests |-> includeTests,
                                         renders |-> renders])
                          ELSE prev
              /\ s' = [s EXCEPT !.Tables = SelectSeq(s.Tables, EntityTable)]
              /\ includeTests' = it
              /\ rpc' = "singleton"
              /\ idx' = 0
              /\ renders' = <<>>
              /\ runErr' = NoErr
              /\ UNCHANGED panicked
    /\ runs' = runs + 1
    /\ UNCHANGED <<conn, opens, closes, cleanups>>
    /\ UNCHANGED <<filterVars, intVars, config, pc, ret, calls, fetched, fetchVars>>

\* the caller calls Run(it) on what New returned
Run ==
    /\ pc = "returned"
    /\ rpc = "idle"
    /\ ~panicked
    /\ runs < MaxRuns
    /\ \E it \in BOOLEAN :
         IF ret.state = NilState
         THEN /\ panicked' = TRUE
              /\ UNCHANGED <<rpc, includeTests, idx, renders, runErr, prev>>
         ELSE /\ prev' = IF runs > 0 /\ runErr = NoErr
                          THEN Returned([includeTests |-> includeTests,
                                         renders |-> renders])
                          ELSE prev
              /\ includeTests' = it
              /\ rpc' = "singleton"
              /\ idx' = 0
              /\ renders' = <<>>
              /\ runErr' = NoErr
              /\ UNCHANGED panicked
    /\ runs' = runs + 1
    /\ UNCHANGED <<conn, opens, closes, cleanups>>
    /\ UNCHANGED <<filterVars, intVars, newVars>>

generateSingletonOutput_NoHarness ==
    /\ rpc = "singleton"
    /\ \E ok \in BOOLEAN :
         /\ renders' = Append(renders, Render("singleton", 0, ok))
         /\ IF ~ok
            THEN RunReturn(Wrap(RenderErr, "singleton template output"))
            ELSE IF includeTests
            THEN /\ rpc' = "singletontest"
                 /\ UNCHANGED <<idx, runErr>>
            ELSE RangeFrom(1)
    /\ UNCHANGED <<runs, includeTests, prev>>
    /\ UNCHANGED <<filterVars, intVars, newVars, connVars>>

generateSingletonOutput ==
    /\ rpc = "singleton"
    /\ \E ok \in BOOLEAN :
         /\ renders' = Append(renders, Render("singleton", 0, ok))
         /\ IF ~ok
            THEN RunReturn(Wrap(RenderErr, "singleton template output"))
            ELSE IF includeTests
            THEN /\ rpc' = "testmain"
                 /\ UNCHANGED <<idx, runErr>>
            ELSE RangeFrom(1)
    /\ UNCHANGED <<runs, includeTests, prev>>
    /\ UNCHANGED <<filterVars, intVars, newVars, connVars>>

generateTestMainOutput ==
    /\ rpc = "testmain"
    /\ \E ok \in BOOLEAN :
         /\ renders' = Append(renders, Render("testmain", 0, ok))
         /\ IF ~ok
            THEN RunReturn(Wrap(RenderErr, "unable to generate TestMain output"))
            ELSE /\ rpc' = "singletontest"
                 /\ UNCHANGED <<idx, runErr>>
    /\ UNCHANGED <<runs, includeTests, prev>>
    /\ UNCHANGED <<filterVars, intVars, newVars, connVars>>

generateSingletonTestOutput ==
    /\ rpc = "singletontest"
    /\ \E ok \in BOOLEAN :
         /\ renders' = Append(renders, Render("singletontest", 0, ok))
         /\ IF ~ok
            THEN RunReturn(Wrap(RenderErr,
                     "unable to generate singleton test template output"))
            ELSE RangeFrom(1)
    /\ UNCHANGED <<runs, includeTests, prev>>
    /\ UNCHANGED <<filterVars, intVars, newVars, connVars>>

generateOutput_AlwaysTests ==
    /\ rpc = "output"
    /\ \E ok \in BOOLEAN :
         /\ renders' = Append(renders, Render("output", idx, ok))
         /\ IF ~ok
            THEN RunReturn(Wrap(RenderErr, "unable to generate output"))
            ELSE /\ rpc' = "testoutput"
                 /\ UNCHANGED <<idx, runErr>>
    /\ UNCHANGED <<runs, includeTests, prev>>
    /\ UNCHANGED <<filterVars, intVars, newVars, connVars>>

generateOutput_Continue ==
    /\ rpc = "output"
    /\ \E ok \in BOOLEAN :
         /\ renders' = Append(renders, Render("output", idx, ok))
         /\ IF includeTests
            THEN /\ rpc' = "testoutput"
                 /\ UNCHANGED <<idx, runErr>>
            ELSE RangeFrom(idx + 1)
    /\ UNCHANGED <<runs, includeTests, prev>>
    /\ UNCHANGED <<filterVars, intVars, newVars, connVars>>

generateOutput ==
    /\ rpc = "output"
    /\ \E ok \in BOOLEAN :
         /\ renders' = Append(renders, Render("output", idx, ok))
         /\ IF ~ok
            THEN RunReturn(Wrap(RenderErr, "unable to generate output"))
            ELSE IF includeTests
            THEN /\ rpc' = "testoutput"
                 /\ UNCHANGED <<idx, runErr>>
            ELSE RangeFrom(idx + 1)
    /\ UNCHANGED <<runs, includeTests, prev>>
    /\ UNCHANGED <<filterVars, intVars, newVars, connVars>>

generateTestOutput ==
    /\ rpc = "testoutput"
    /\ \E ok \in BOOLEAN :
         /\ renders' = Append(renders, Render("testoutput", idx, ok))
         /\ IF ~ok
            THEN RunReturn(Wrap(RenderErr, "unable to generate test output"))
            ELSE RangeFrom(idx + 1)
    /\ UNCHANGED <<runs, includeTests, prev>>
    /\ UNCHANGED <<filterVars, intVars, newVars, connVars>>

----------------------------------------------------------------------------
(* Orchestrator: Cleanup *)

\* the caller calls Cleanup on what New returned; s.Driver.Close() is
\* unconditional, and through the nil *State it is a nil dereference
Cleanup ==
    /\ pc = "returned"
    /\ rpc = "idle"
    /\ ~panicked
    /\ cleanups < MaxCleanups
    /\ cleanups' = cleanups + 1
    /\ IF ret.state = NilState
       THEN /\ panicked' = TRUE
            /\ UNCHANGED <<conn, closes>>
       ELSE /\ closes' = closes + 1
            /\ conn' = "closed"
            /\ UNCHANGED panicked
    /\ UNCHANGED opens
    /\ UNCHANGED <<filterVars, intVars, newVars, runVars>>

----------------------------------------------------------------------------
(* DefaultInt *)

\* the int arguments DefaultInt is called with
Ints == (0 - MaxInt)..MaxInt

DefaultInt_NonPositive(v, d) == IF v <= 0 THEN d ELSE v

\* if value == 0 { return def }; return value
DefaultInt(v, d) == IF v = 0 THEN d ELSE v

CallDefaultInt ==
    /\ bound = NotCalled
    /\ bound' = Returned(DefaultInt(value, def))
    /\ UNCHANGED <<value, def>>
    /\ UNCHANGED <<filterVars, newVars, connVars, runVars>>

----------------------------------------------------------------------------
(* Filter resolver: the calls *)

CallTablesFromList ==
    /\ tables = NotCalled
    /\ tables' = Returned(TablesFromList(list))
    /\ UNCHANGED <<list, tablename, columns>>
    /\ UNCHANGED <<intVars, newVars, connVars, runVars>>

CallColumnsFromList ==
    /\ columns = NotCalled
    /\ columns' = Returned(ColumnsFromList(list, tablename))
    /\ UNCHANGED <<list, tablename, tables>>
    /\ UNCHANGED <<intVars, newVars, connVars, runVars>>

----------------------------------------------------------------------------
(* Specifications *)

\* s := &State{Config: config}: nothing else is set yet
InitNew ==
    /\ pc = "initDriver"
    /\ s = [Driver |-> NilDriver, Tables |-> <<>>, Templates |-> {}]
    /\ ret = [state |-> NilState, err |-> NoErr]
    /\ calls = <<>>
    /\ fetched = "none"
    /\ fetchNames = NotCalled
    /\ fetchSlots = <<>>
    /\ fetchOrder = <<>>
    /\ outOfOrder = FALSE
    /\ conn = "none"
    /\ opens = 0
    /\ closes = 0
    /\ cleanups = 0
    /\ panicked = FALSE
    /\ runs = 0
    /\ rpc = "idle"
    /\ includeTests = FALSE
    /\ idx = 0
    /\ renders = <<>>
    /\ runErr = NoErr
    /\ prev = NotCalled

Init ==
    /\ config \in [DriverName : DriverNames]
    /\ InitNew
    /\ list = <<>>
    /\ tablename = <<>>
    /\ tables = NotCalled
    /\ columns = NotCalled
    /\ value = 0
    /\ def = 0
    /\ bound = NotCalled

Next ==
    \/ NewInitDriver
    \/ NewOpen
    \/ FetchTableNames
    \/ FetchTable
    \/ NewInitTables
    \/ NewInitOutFolder
    \/ NewInitTemplates
    \/ Run
    \/ generateSingletonOutput
    \/ generateTestMainOutput
    \/ generateSingletonTestOutput
    \/ generateOutput
    \/ generateTestOutput
    \/ Cleanup

Spec == Init /\ [][Next]_vars

\* the filter resolver on every bounded input
InitFilter ==
    /\ IsSpecList(list)
    /\ tablename \in TableArgs
    /\ tables = NotCalled
    /\ columns = NotCalled
    /\ value = 0
    /\ def = 0
    /\ bound = NotCalled
    /\ config = [DriverName |-> "mock"]
    /\ InitNew

NextFilter ==
    \/ CallTablesFromList
    \/ CallColumnsFromList

SpecFilter == InitFilter /\ [][NextFilter]_vars

\* DefaultInt on every bounded pair of arguments
InitDefaultInt ==
    /\ value \in Ints
    /\ def \in Ints
    /\ bound = NotCalled
    /\ list = <<>>
    /\ tablename = <<>>
    /\ tables = NotCalled
    /\ columns = NotCalled
    /\ config = [DriverName |-> "mock"]
    /\ InitNew

NextDefaultInt == CallDefaultInt

SpecDefaultInt == InitDefaultInt /\ [][NextDefaultInt]_vars

----------------------------------------------------------------------------
(* Properties of the filter resolver, checked under SpecFilter *)

HasDot(x) == \E i \in 1..Len(x) : x[i] = "."

DotCount(x) == Cardinality({i \in 1..Len(x) : x[i] = "."})

WholeTable(x) == ~HasDot(x)

\* C1: TablesFromList(list) is the subsequence of list, in input order and
\* with duplicates kept, of the specifiers without a "." separator; an
\* empty result is the nil slice.
C1_TablesFromList ==
    tables # NotCalled =>
        /\ tables[1].elems = SelectSeq(list, WholeTable)
        /\ (tables[1].elems = <<>> => tables[1].isnil)

\* a duplicated whole-table specifier is kept twice, and a whole-table
\* specifier next to a column specifier is the only one returned
C1_Witness ==
    /\ tables # NotCalled
    /\ Len(list) = 2
    /\ ~HasDot(list[1])
    /\ HasDot(list[2])
    /\ list[1] # <<>>
    /\ tables[1].elems = <<list[1]>>

\* the text before and after the only "." of a two-segment specifier
TableSegment(x) == SubSeq(x, 1, (CHOOSE i \in 1..Len(x) : x[i] = ".") - 1)

ColumnSegment(x) == SubSeq(x, (CHOOSE i \in 1..Len(x) : x[i] = ".") + 1, Len(x))

ColumnOf(x, t) ==
    /\ DotCount(x) = 1
    /\ TableSegment(x) \in {t, <<"*">>}

RECURSIVE ColumnSegments(_, _)
ColumnSegments(l, t) ==
    IF l = <<>> THEN <<>>
    ELSE (IF ColumnOf(Head(l), t) THEN <<ColumnSegment(Head(l))>> ELSE <<>>)
             \o ColumnSegments(Tail(l), t)

\* C2: ColumnsFromList(list, t) is, in input order and with duplicates
\* kept, the second segment of every specifier with exactly two segments
\* whose first segment is t or "*"; an empty result is the nil slice.
C2_ColumnsFromList ==
    columns # NotCalled =>
        /\ columns[1].elems = ColumnSegments(list, tablename)
        /\ (columns[1].elems = <<>> => columns[1].isnil)

\* a wildcard specifier and a specifier naming the table both contribute,
\* in input order
C2_Witness ==
    /\ columns # NotCalled
    /\ tablename = <<"a">>
    /\ list = << <<"*", ".", "a">>, <<"a", ".", "*">> >>
    /\ columns[1].elems = << <<"a">>, <<"*">> >>

Malformed(x) == DotCount(x) >= 2

WellFormed(x) == ~Malformed(x)

\* C3: the results depend only on the list without its specifiers of three
\* or more segments, so two lists that differ by inserting or removing such
\* specifiers at any positions give the same TablesFromList and the same
\* ColumnsFromList.
C3_MalformedSkipped ==
    /\ tables # NotCalled =>
         tables[1] = TablesFromList(SelectSeq(list, WellFormed))
    /\ columns # NotCalled =>
         columns[1] = ColumnsFromList(SelectSeq(list, WellFormed), tablename)

\* a three-segment specifier whose first segment is the table sits before a
\* column specifier of that table, and only the latter is returned
C3_Witness ==
    /\ tables # NotCalled
    /\ columns # NotCalled
    /\ tablename = <<"a">>
    /\ list = << <<"a", ".", ".">>, <<"a", ".", "a">> >>
    /\ columns[1].elems = << <<"a">> >>
    /\ tables[1] = NilSlice

----------------------------------------------------------------------------
(* Properties of New and Cleanup, checked under Spec *)

AllOk(n) == \A i \in 1..n : calls[i].ok

\* C4: the stages of New run in the order initDriver, Open, initTables,
\* initOutFolder, initTemplates, each at most once and only after every
\* earlier one succeeded; a failing stage is the last one run and New then
\* returns the nil State with an error.
C4_StageOrder ==
    /\ Len(calls) <= Len(StageOrder)
    /\ \A i \in 1..Len(calls) : calls[i].stage = StageOrder[i]
    /\ AllOk(Len(calls) - 1)
    /\ pc # "returned" =>
         /\ AllOk(Len(calls))
         /\ pc = StageOrder[Len(calls) + 1]
    /\ pc = "returned" =>
         IF AllOk(Len(calls))
         THEN /\ Len(calls) = Len(StageOrder)
              /\ ret = [state |-> "s", err |-> NoErr]
         ELSE /\ ret.state = NilState
              /\ ret.err # NoErr

\* New failed at the output folder: templates were never loaded
C4_Witness ==
    /\ pc = "returned"
    /\ Len(calls) = 4
    /\ ~calls[4].ok
    /\ ret.state = NilState

\* C5 as claimed: once New has failed, a Cleanup call by the caller leaves
\* no connection open.
C5_CleanupReleasesAfterFailedNew ==
    (pc = "returned" /\ ret.err # NoErr /\ cleanups > 0) => conn # "open"

\* C6 as claimed: Open is called once and before the table fetch, Close is
\* called only by Cleanup and once however many times Cleanup is called.
C6_OpenOnceCloseOnce ==
    /\ opens <= 1
    /\ fetched # "none" => opens = 1
    /\ cleanups = 0 => closes = 0
    /\ (ret.state # NilState /\ cleanups >= 1) => closes = 1

\* C7: with a driver name other than "postgres" and "mock", New returns the
\* invalid-driver error and the nil State, s.Driver stays nil, and no later
\* stage (Open, introspection, output folder, templates) is run.
C7_InvalidDriver ==
    (config.DriverName \notin {"postgres", "mock"} /\ pc # "initDriver") =>
        /\ pc = "returned"
        /\ ret = [state |-> NilState,
                  err |-> <<"An invalid driver name was provided">>]
        /\ s.Driver = NilDriver
        /\ calls = <<[stage |-> "initDriver", ok |-> FALSE]>>
        /\ opens = 0
        /\ conn = "none"
        /\ fetched = "none"
        /\ s.Templates = {}

C7_Witness ==
    /\ config.DriverName = "mysql"
    /\ pc = "returned"
    /\ ret.err # NoErr

\* C8: New never returns a State with an empty table list; when the fetch
\* succeeds with zero tables New fails with "no tables found in database"
\* and initTables is the last stage run.
C8_NoTablesFatal ==
    /\ (pc = "returned" /\ ret.state # NilState) => Len(s.Tables) > 0
    /\ (fetched = "ok" /\ Len(s.Tables) = 0) =>
         /\ pc = "returned"
         /\ ret = [state |-> NilState,
                   err |-> <<"unable to initialize tables",
                             "no tables found in database">>]
         /\ Len(calls) = 3

C8_Witness ==
    /\ fetched = "ok"
    /\ Len(s.Tables) = 0
    /\ pc = "returned"

\* the k-th smallest element of a set of indices
Kth(S, k) == CHOOSE i \in S : Cardinality({j \in S : j < i}) = k - 1

\* C9: checkPKeys succeeds iff every table has a primary key; otherwise its
\* one error names the tables without a primary key, all of them and no
\* others, in table-list order.
C9_CheckPKeys ==
    (fetched = "ok" /\ Len(s.Tables) > 0) =>
        LET lacking == {i \in 1..Len(s.Tables) : ~s.Tables[i].PKey}
            n == Cardinality(lacking)
            e == ret.err
        IN  IF n = 0
            THEN calls[3].ok
            ELSE /\ ~calls[3].ok
                 /\ pc = "returned"
                 /\ Len(e) = 2 * n + 2
                 /\ e[1] = "unable to initialize tables"
                 /\ e[2] = "primary key missing in tables ("
                 /\ e[Len(e)] = ")"
                 /\ \A k \in 1..n : e[2 * k + 1] = s.Tables[Kth(lacking, k)].Name
                 /\ \A k \in 1..(n - 1) : e[2 * k + 2] = ", "

\* the first and the third table lack a primary key, the second has one
C9_Witness ==
    /\ fetched = "ok"
    /\ Len(s.Tables) = 3
    /\ ~s.Tables[1].PKey
    /\ s.Tables[2].PKey
    /\ ~s.Tables[3].PKey
    /\ s.Tables[1].Name # s.Tables[3].Name
    /\ pc = "returned"

----------------------------------------------------------------------------
(* Properties of Run, checked under Spec *)

RECURSIVE TableRenders(_, _, _)
TableRenders(tbls, i, it) ==
    IF i > Len(tbls) THEN <<>>
    ELSE (IF tbls[i].IsJoinTable THEN <<>>
          ELSE <<[kind |-> "output", table |-> i, ok |-> TRUE]>>
                   \o (IF it THEN <<[kind |-> "testoutput", table |-> i, ok |-> TRUE]>>
                       ELSE <<>>))
             \o TableRenders(tbls, i + 1, it)

ExpectedRenders(tbls, it) ==
    <<[kind |-> "singleton", table |-> 0, ok |-> TRUE]>>
        \o (IF it THEN <<[kind |-> "testmain", table |-> 0, ok |-> TRUE],
                         [kind |-> "singletontest", table |-> 0, ok |-> TRUE]>>
            ELSE <<>>)
        \o TableRenders(tbls, 1, it)

RunReturned == runs > 0 /\ rpc = "idle" /\ ~panicked

\* the render steps without the data they were handed
RenderSteps(rs) ==
    [k \in 1..Len(rs) |->
        [kind |-> rs[k].kind, table |-> rs[k].table, ok |-> rs[k].ok]]

\* C10: an error-free Run renders the singleton templates once, then (with
\* includeTests) the test harness once and the singleton-test templates
\* once, then for every non-join table in table-list order its templates
\* once, immediately followed (with includeTests) by its test templates.
C10_RunOrder ==
    /\ (runs > 0 /\ ~panicked /\ \A k \in 1..Len(renders) : renders[k].ok) =>
         /\ Len(renders) <= Len(ExpectedRenders(s.Tables, includeTests))
         /\ RenderSteps(renders)
                = SubSeq(ExpectedRenders(s.Tables, includeTests), 1, Len(renders))
    /\ (RunReturned /\ runErr = NoErr) =>
         RenderSteps(renders) = ExpectedRenders(s.Tables, includeTests)

\* a Run with tests over three tables, the second a join table, returned nil
C10_Witness ==
    /\ RunReturned
    /\ runErr = NoErr
    /\ includeTests
    /\ Len(s.Tables) = 3
    /\ ~s.Tables[1].IsJoinTable
    /\ s.Tables[2].IsJoinTable
    /\ ~s.Tables[3].IsJoinTable
    /\ Len(renders) = 7

PerTable(r) == r.kind \in {"output", "testoutput"}

TestOriented(r) == r.kind \in {"testmain", "singletontest", "testoutput"}

Rendered(kind, i) ==
    \E k \in 1..Len(renders) : renders[k].kind = kind /\ renders[k].table = i

\* C11: Run renders no per-table or per-table-test templates for a join
\* table, renders them for every other table when it returns nil, and hands
\* every render step the full table list, join tables included.
C11_JoinTables ==
    (runs > 0 /\ ~panicked) =>
        /\ \A k \in 1..Len(renders) :
             /\ renders[k].data = s.Tables
             /\ PerTable(renders[k]) =>
                  /\ renders[k].table \in 1..Len(s.Tables)
                  /\ ~s.Tables[renders[k].table].IsJoinTable
        /\ (RunReturned /\ runErr = NoErr) =>
             \A i \in 1..Len(s.Tables) :
                 ~s.Tables[i].IsJoinTable =>
                     /\ Rendered("output", i)
                     /\ includeTests => Rendered("testoutput", i)

\* a Run with tests returned nil over a join table followed by an entity
\* table: only the second is rendered, with both in the data
C11_Witness ==
    /\ RunReturned
    /\ runErr = NoErr
    /\ includeTests
    /\ Len(s.Tables) = 2
    /\ s.Tables[1].IsJoinTable
    /\ ~s.Tables[2].IsJoinTable
    /\ Rendered("testoutput", 2)
    /\ ~Rendered("output", 1)
    /\ renders[Len(renders)].data = s.Tables

NotTestOriented(r) == ~TestOriented(r)

\* two Runs of the same State have returned nil, one with and one without
\* includeTests
RanWithAndWithoutTests ==
    /\ RunReturned
    /\ runErr = NoErr
    /\ prev # NotCalled
    /\ prev[1].includeTests # includeTests

\* C12: a Run with includeTests = false renders no test harness, no
\* singleton-test and no per-table-test templates, and its renders are those
\* of a Run with includeTests = true without the test-oriented ones.
C12_IncludeTestsGate ==
    /\ (runs > 0 /\ ~panicked /\ ~includeTests) =>
         \A k \in 1..Len(renders) : ~TestOriented(renders[k])
    /\ RanWithAndWithoutTests =>
         LET with == IF includeTests THEN renders ELSE prev[1].renders
             without == IF includeTests THEN prev[1].renders ELSE renders
         IN  SelectSeq(with, NotTestOriented) = without

\* a Run with tests, then a Run without, over two entity tables
C12_Witness ==
    /\ RanWithAndWithoutTests
    /\ ~includeTests
    /\ Len(s.Tables) = 2
    /\ Len(renders) = 3
    /\ Len(prev[1].renders) = 7

----------------------------------------------------------------------------
(* Error propagation of New, checked under Spec *)

\* the first part of the error New returns when the stage fails
StagePrefix(stage) ==
    CASE stage = "initDriver" -> "An invalid driver name was provided"
      [] stage = "Open" -> "unable to connect to the database"
      [] stage = "initTables" -> "unable to initialize tables"
      [] stage = "initOutFolder" -> "unable to initialize the output folder"
      [] stage = "initTemplates" -> "unable to initialize templates"

Stages == {StageOrder[i] : i \in 1..Len(StageOrder)}

\* C13: the error New returns starts with a message that belongs to the
\* stage that failed and to no other stage (for Open and the init stages a
\* prefix wrapped around the underlying error, for initDriver its own
\* message), the failed stage is the last one run, and no stage runs twice.
C13_StageErrors ==
    /\ \A a, b \in Stages : a # b => StagePrefix(a) # StagePrefix(b)
    /\ \A i, j \in 1..Len(calls) : i # j => calls[i].stage # calls[j].stage
    /\ \A i \in 1..Len(calls) :
         ~calls[i].ok =>
             /\ i = Len(calls)
             /\ pc = "returned"
             /\ ret.state = NilState
             /\ ret.err # NoErr
             /\ ret.err[1] = StagePrefix(calls[i].stage)
             /\ calls[i].stage # "initDriver" => Len(ret.err) >= 2
    /\ (pc = "returned" /\ ret.err # NoErr) => ~calls[Len(calls)].ok

\* New failed while loading the templates
C13_Witness ==
    /\ pc = "returned"
    /\ Len(calls) = 5
    /\ ~calls[5].ok
    /\ ret.err = <<"unable to initialize templates", "template error">>

----------------------------------------------------------------------------
(* Determinism, checked under Spec *)

\* the tables the driver answered, in the order it enumerated their names
DriverTables ==
    [i \in 1..Len(fetchSlots) |->
        [Name |-> fetchNames[1].names[i],
         PKey |-> fetchSlots[i][1].PKey,
         IsJoinTable |-> fetchSlots[i][1].IsJoinTable]]

\* two Runs of the same State with the same includeTests have returned nil
RanTwiceAlike ==
    /\ RunReturned
    /\ runErr = NoErr
    /\ prev # NotCalled
    /\ prev[1].includeTests = includeTests

\* C14: the table list is the driver's answers in the driver's name order,
\* whatever order the fetches completed in, and two error-free Runs with
\* the same includeTests perform the same render steps with the same data.
C14_Deterministic ==
    /\ fetched = "ok" => s.Tables = DriverTables
    /\ RanTwiceAlike =>
         /\ prev[1].renders = renders
         /\ \A k \in 1..Len(renders) : renders[k].data = DriverTables

\* the fetch of the second table completed before that of the first, and
\* two Runs with tests returned nil
C14_Witness ==
    /\ RanTwiceAlike
    /\ outOfOrder
    /\ includeTests
    /\ Len(s.Tables) = 2
    /\ s.Tables[1].Name = "a"
    /\ s.Tables[2].Name = "b"
    /\ Len(renders) = 7

----------------------------------------------------------------------------
(* Failure of a render step, checked under Spec *)

\* C15: a failed render step is the last step of its Run, which returns an
\* error; the steps up to it are the expected ones, so nothing is skipped
\* before it and nothing is rendered after it; a Run without a failed step
\* returns nil after rendering every non-join table.
C15_FirstErrorAborts ==
    (runs > 0 /\ ~panicked) =>
        LET n == Len(renders)
            expected == ExpectedRenders(s.Tables, includeTests)
        IN  /\ n <= Len(expected)
            /\ \A k \in 1..n :
                 /\ renders[k].kind = expected[k].kind
                 /\ renders[k].table = expected[k].table
                 /\ ~renders[k].ok =>
                      /\ k = n
                      /\ rpc = "idle"
                      /\ runErr # NoErr
            /\ RunReturned =>
                 /\ n > 0
                 /\ runErr # NoErr <=> ~renders[n].ok
                 /\ runErr = NoErr => n = Len(expected)

\* the templates of the first of three entity tables failed: Run returned
\* the error and the other two tables were not rendered
C15_Witness ==
    /\ RunReturned
    /\ runErr = <<"unable to generate output", "render error">>
    /\ Len(s.Tables) = 3
    /\ \A i \in 1..3 : ~s.Tables[i].IsJoinTable
    /\ Len(renders) = 2
    /\ ~Rendered("output", 2)
    /\ ~Rendered("output", 3)

----------------------------------------------------------------------------
(* Frame of Run, checked under Spec *)

\* the step is the call of Run or a step of a Run in progress
RunStep == runs' # runs \/ rpc # "idle"

\* C16: no step of Run, whether the Run succeeds or fails, changes the
\* Config, the Driver, the table list or the loaded templates, nor the
\* driver connection; and a Run that returns nil renders the same steps as
\* the last Run of that State that returned nil with the same includeTests.
C16_RunReadsOnly ==
    /\ [](RanTwiceAlike => RenderSteps(prev[1].renders) = RenderSteps(renders))
    /\ [][RunStep => /\ config' = config
                     /\ s' = s
                     /\ ret' = ret
                     /\ conn' = conn
                     /\ opens' = opens
                     /\ closes' = closes]_vars

\* a second Run has returned, after a first one that returned nil, on a
\* State with a join table and all templates loaded
C16_Witness ==
    /\ runs = 2
    /\ RunReturned
    /\ prev # NotCalled
    /\ ret.state # NilState
    /\ Len(s.Tables) = 3
    /\ s.Tables[2].IsJoinTable
    /\ Cardinality(s.Templates) = 5
    /\ conn = "open"

----------------------------------------------------------------------------
(* Run after Cleanup, checked under Spec *)

\* C17: once Cleanup has closed the driver of a State, no Run on that State
\* is in progress: a later Run renders nothing and uses the closed driver
\* for nothing.  Run has no guard on the State (sqlboiler.go:78-87), so the
\* statement is violated.
C17_NoRunAfterCleanup ==
    conn = "closed" => rpc = "idle"

----------------------------------------------------------------------------
(* Properties of DefaultInt, checked under SpecDefaultInt *)

\* C18 as stated: the bound DefaultInt(value, def) is value when value > 0
\* and def for every value <= 0, so it is positive whenever def is positive.
\* A negative value is returned as it is, so the statement is violated.
C18_NonPositiveFallsBack ==
    bound # NotCalled =>
        /\ (value > 0 => bound[1] = value)
        /\ (value <= 0 => bound[1] = def)
        /\ (def > 0 => bound[1] > 0)

\* C18: the bound DefaultInt(value, def) is def when value is 0 and value
\* itself for every other value, a negative one included; so it is positive
\* when def is positive and value is not negative, and negative when value is.
C18_DefaultInt ==
    bound # NotCalled =>
        /\ (value = 0 => bound[1] = def)
        /\ (value # 0 => bound[1] = value)
        /\ (def > 0 /\ value >= 0 => bound[1] > 0)
        /\ (value < 0 => bound[1] < 0)

\* a negative value was passed with a positive default and came back as it is
C18_Witness ==
    /\ bound # NotCalled
    /\ value < 0
    /\ def > 0
    /\ bound[1] = value

----------------------------------------------------------------------------
(* Independence of the specifiers, checked under SpecFilter *)

\* the two parts of list cut after its k-th specifier
Left(k) == SubSeq(list, 1, k)

Right(k) == SubSeq(list, k + 1, Len(list))

\* C19: specifiers are resolved independently: wherever list is cut in two,
\* TablesFromList(list) is TablesFromList of the left part followed by
\* TablesFromList of the right part, and the same for ColumnsFromList with
\* any table name; and no specifier contributes to both results.
C19_Independent ==
    /\ tables # NotCalled =>
         \A k \in 0..Len(list) :
            tables[1].elems =
                TablesFromList(Left(k)).elems \o TablesFromList(Right(k)).elems
    /\ columns # NotCalled =>
         \A k \in 0..Len(list) :
            columns[1].elems =
                ColumnsFromList(Left(k), tablename).elems
                    \o ColumnsFromList(Right(k), tablename).elems
    /\ (tables # NotCalled /\ columns # NotCalled) =>
         /\ \A i \in 1..Len(list) :
               \/ TablesFromList(<<list[i]>>).elems = <<>>
               \/ ColumnsFromList(<<list[i]>>, tablename).elems = <<>>
         /\ Len(tables[1].elems) + Len(columns[1].elems) <= Len(list)

\* both functions returned on a list of a whole-table specifier and a column
\* specifier of the table asked for, each contributing to one result only
C19_Witness ==
    /\ tables # NotCalled
    /\ columns # NotCalled
    /\ Len(list) = 2
    /\ tables[1].elems = <<list[1]>>
    /\ Len(columns[1].elems) = 1
    /\ HasDot(list[2])

====
